---- MODULE Spec2Model ----
(***************************************************************************)
(* The Tangle of src/src/tangle.hpp: a DAG of TransactionNodes rooted at   *)
(* a genesis node, its list of tips, and the operations Tangle::add,       *)
(* Tangle::removeTip, Tangle::setGenesis, Tangle::find and                 *)
(* Tangle::queryBalance, called sequentially.                              *)
(*                                                                         *)
(* A TransactionNode object is a natural number; its hash is that number   *)
(* (hashes are content addresses: distinct objects of the model are        *)
(* distinct transactions).  Accounts are 1..NumAccounts and amounts are    *)
(* naturals (the code uses double).                                        *)
(***************************************************************************)
EXTENDS Integers, Sequences, FiniteSets, TLC

\* ------------------------------------------------------------- bounds
\* Node objects that can exist, the genesis of the constructor included.
MaxNodes == 4
\* The same where mined transactions are added and weighed (WeightSpec).
MaxWeightNodes == 4
\* Largest mining difficulty of a mined transaction.
MaxDifficulty == 6
\* Transactions this peer and its peers create, the genesis of the
\* constructor included (GossipSpec, GenesisSpec).
MaxNetNodes == 4
\* Longest parent list and input list of a transaction on the network.
MaxNetParents == 1
MaxNetInputs == 1
\* The same for the ledger of single-input transfers (LedgerSpec).
MaxLedgerNodes == 5
\* Threads that call the Tangle at the same time, and the node objects that
\* can exist while they do (ThreadSpec).
NumThreads == 2
MaxThreadNodes == 4
\* Node objects that can exist while the weight threads race (RaceSpec).
MaxRaceNodes == 3
\* Node objects that can exist when walk sets are generated, and the longest
\* queue generateWalkSet is followed to (WalkSetSpec).
MaxWalkSetNodes == 4
MaxWalkSetQueue == 5
\* Accounts (public keys) 1..NumAccounts.
NumAccounts == 2
\* Largest amount of one input or output.
MaxAmount == 1
\* Longest input list of a created transaction.
MaxInputs == 3
\* Longest output list of a created transaction.
MaxOutputs == 1
\* Longest parent list of a created transaction.
MaxParents == 2
\* Largest amount the output of a new genesis holds.
MaxSupply == 2

\* The null TransactionNode::ptr.
Null == 0
\* Result of queryBalance when it throws InvalidBalance (real balances are >= 0).
InvalidBalance == 0 - 1

NodeIds == 1..(IF MaxNodes > MaxLedgerNodes THEN MaxNodes ELSE MaxLedgerNodes)
Accounts == 1..NumAccounts
Amounts == 1..MaxAmount

VARIABLES
    node,      \* the node objects: parents, inputs, outputs, isGenesis
    created,   \* objects 1..created exist
    children,  \* TransactionNode::children of every object
    tips,      \* Tangle::tips
    genesis,   \* Tangle::genesis
    last,      \* the last call that returned, or that ended the process
    boot,      \* "fresh", "boot" (setGenesis on the fresh tangle), "swapped"
    removed,   \* some removeTip call has succeeded
    walk,      \* the biasedRandomWalk in progress: start, position, result
    networkQueue,             \* NetworkedTangle::networkQueue
    listeningForGenesisSync,  \* NetworkedTangle::listeningForGenesisSync
    sent,      \* the messages this peer has handed to the network, in order
    inflight,  \* the messages on their way to this peer
    peerA,     \* the tangle of the peer that streams its DAG to this one
    thread,    \* the call each thread is in: operation, position, node
    mutex,     \* Tangle::mutex: the thread that holds it, or Null
    tasks,     \* the detached updateCumulativeWeights threads still running
    walkSet    \* the generateWalkSet call in progress: node, queue, result

\* The state of the base Tangle and of its callers.
tangleVars == <<node, created, children, tips, genesis, last, boot, removed>>
\* The state of the NetworkedTangle around it.
netVars == <<networkQueue, listeningForGenesisSync, sent, inflight, peerA>>
\* The threads that call the Tangle and the calls they are in.
threadVars == <<thread, mutex, tasks, walkSet>>
vars == <<tangleVars, walk, netVars, threadVars>>

\* ------------------------------------------------------------- helpers
RECURSIVE SeqsUpTo(_, _)
\* All sequences over S of length at most n.
SeqsUpTo(S, n) ==
    IF n = 0 THEN {<<>>}
    ELSE LET shorter == SeqsUpTo(S, n - 1)
         IN  shorter \cup {Append(s, x) : s \in shorter, x \in S}

Range(s) == {s[i] : i \in 1..Len(s)}

RECURSIVE Erase(_, _)
\* std::erase(vector, value): every occurrence is removed, the order is kept.
Erase(s, x) ==
    IF s = <<>> THEN <<>>
    ELSE IF Head(s) = x THEN Erase(Tail(s), x)
    ELSE <<Head(s)>> \o Erase(Tail(s), x)

RECURSIVE SumFor(_, _)
\* Sum of the amounts of the inputs (or outputs) of `list` on `account`.
SumFor(list, account) ==
    IF list = <<>> THEN 0
    ELSE (IF Head(list).account = account THEN Head(list).amount ELSE 0)
         + SumFor(Tail(list), account)

RECURSIVE SumAll(_)
SumAll(list) ==
    IF list = <<>> THEN 0 ELSE Head(list).amount + SumAll(Tail(list))

\* The default mining difficulty of the constructor and of create.
DefaultDifficulty == 3
\* Weights are counted in fifths: ownWeight is min(miningDifficulty / 5, 1).
FullWeight == 5

\* TransactionNode::create(parents, inputs, outputs, difficulty): the weight
\* starts at 0 and the node is no genesis.
create(parents, inputs, outputs, difficulty) ==
    [parents |-> parents, inputs |-> inputs, outputs |-> outputs,
     isGenesis |-> FALSE, miningDifficulty |-> difficulty, cumulativeWeight |-> 0]

\* TransactionNode::create(parents, inputs, outputs), the difficulty defaulted.
TransactionNode(parents, inputs, outputs) ==
    create(parents, inputs, outputs, DefaultDifficulty)

\* An object that does not exist yet.
NoNode == TransactionNode(<<>>, <<>>, <<>>)

\* The Tangle object as one value.
Tangle == [node |-> node, children |-> children, tips |-> tips, genesis |-> genesis]

\* ------------------------------------------------------------- find
RECURSIVE recursiveFind(_, _, _), recursiveFindIn(_, _, _)
\* Fault for C10: recursiveFind that descends into the first child only.
recursiveFindFirstChild(t, n, hash) ==
    LET ps == t.node[n].parents
        inFirstParent ==
            IF ps = <<>> THEN FALSE ELSE hash \in Range(t.children[ps[1]])
    IN  IF n = hash /\ ps = <<>> THEN n
        ELSE IF n = hash /\ inFirstParent THEN hash
        ELSE recursiveFindIn(t, IF t.children[n] = <<>> THEN <<>>
                                ELSE <<Head(t.children[n])>>, hash)

\* TransactionNode::recursiveFind on object n.
recursiveFind(t, n, hash) ==
    LET ps == t.node[n].parents
        inFirstParent ==
            IF ps = <<>> THEN FALSE ELSE hash \in Range(t.children[ps[1]])
    IN  IF n = hash /\ ps = <<>> THEN n
        ELSE IF n = hash /\ inFirstParent THEN hash
        ELSE recursiveFindIn(t, t.children[n], hash)

\* The loop over the children: the first child whose subtree holds the hash.
recursiveFindIn(t, cs, hash) ==
    IF cs = <<>> THEN Null
    ELSE LET r == recursiveFind(t, Head(cs), hash)
         IN  IF r # Null THEN r ELSE recursiveFindIn(t, Tail(cs), hash)

\* Tangle::find.
find(t, hash) == recursiveFind(t, t.genesis, hash)

\* ------------------------------------------------------------- queryBalance
RECURSIVE queryBalanceLoop(_, _, _, _, _)
\* The while loop of Tangle::queryBalance: q the queue, foundNodes the visited
\* hashes, balance the running balance.
queryBalanceLoop(t, q, foundNodes, balance, account) ==
    IF q = <<>> THEN balance
    ELSE LET head == Head(q)
             afterInputs == balance - SumFor(t.node[head].inputs, account)
         IN  IF head \in foundNodes
             THEN queryBalanceLoop(t, Tail(q), foundNodes, balance, account)
             ELSE IF afterInputs < 0 THEN InvalidBalance
             ELSE queryBalanceLoop(t, Tail(q) \o t.children[head],
                                   foundNodes \cup {head},
                                   afterInputs + SumFor(t.node[head].outputs, account),
                                   account)

\* Tangle::queryBalance: the balance, or InvalidBalance when it throws.
queryBalance(t, account) == queryBalanceLoop(t, <<t.genesis>>, {}, 0, account)

\* ------------------------------------------------------------- add
\* Transaction::validateTransactionTotals: the inputs cover the outputs.
validateTransactionTotals(nd) == SumAll(nd.inputs) >= SumAll(nd.outputs)

\* Position of the first entry of balanceMap for the account, or 0.
CachedAt(balanceMap, account) ==
    LET hits == {p \in 1..Len(balanceMap) : balanceMap[p][1] = account}
    IN  IF hits = {} THEN 0 ELSE CHOOSE p \in hits : \A o \in hits : p <= o

RECURSIVE checkInputs(_, _, _)
\* The loop of Tangle::add over node->inputs with its balanceMap cache: TRUE
\* when no InvalidBalance is thrown.  The counter i of the code is incremented
\* before the comparison, so a hit at position p (from 1) leaves i = p, and a
\* miss leaves i = size; the code then appends when i = size and otherwise
\* writes the entry of index i (from 0), the one after the hit.
checkInputs(t, inputs, balanceMap) ==
    IF inputs = <<>> THEN TRUE
    ELSE LET input == Head(inputs)
             hit == CachedAt(balanceMap, input.account)
             i == IF hit # 0 THEN hit ELSE Len(balanceMap)
             cached == IF hit # 0 THEN balanceMap[hit][2] ELSE 0 - 1
             queried == IF cached < 0 THEN queryBalance(t, input.account) ELSE cached
             balance == queried - input.amount
         IN  IF queried = InvalidBalance \/ balance < 0 THEN FALSE
             ELSE checkInputs(t, Tail(inputs),
                    IF i = Len(balanceMap)
                    THEN Append(balanceMap, <<input.account, balance>>)
                    ELSE [balanceMap EXCEPT ![i + 1] = <<@[1], balance>>])

RECURSIVE checkParents(_, _, _, _)
\* Fault for C6: the loop over the parents without the already-a-child check.
checkParentsNoDuplicate(t, n, parents, passed) ==
    IF parents = <<>> THEN [result |-> "ok", passed |-> passed]
    ELSE IF find(t, Head(parents)) = Null
         THEN [result |-> "NodeNotFound", passed |-> passed]
    ELSE checkParents(t, n, Tail(parents), passed + 1)

\* Fault for C7: the loop over the parents without the find of the parent.
checkParentsNoFind(t, n, parents, passed) ==
    IF parents = <<>> THEN [result |-> "ok", passed |-> passed]
    ELSE IF n \in Range(t.children[Head(parents)])
         THEN [result |-> "DuplicateChild", passed |-> passed]
    ELSE checkParents(t, n, Tail(parents), passed + 1)

\* The first loop of Tangle::add over node->parents: the error it throws, and
\* the number of parents that passed before it.
checkParents(t, n, parents, passed) ==
    IF parents = <<>> THEN [result |-> "ok", passed |-> passed]
    ELSE IF find(t, Head(parents)) = Null
         THEN [result |-> "NodeNotFound", passed |-> passed]
    ELSE IF n \in Range(t.children[Head(parents)])
         THEN [result |-> "DuplicateChild", passed |-> passed]
    ELSE checkParents(t, n, Tail(parents), passed + 1)

\* Every check of Tangle::add, in the order of the code.  Transactions are
\* signed and mined when they are created (validateTransaction and
\* validateTransactionMined pass); their totals are what the caller chose.
addChecks(t, n) ==
    IF ~validateTransactionTotals(t.node[n])
    THEN [result |-> "InvalidTransaction", passed |-> 0]
    ELSE IF ~checkInputs(t, t.node[n].inputs, <<>>)
         THEN [result |-> "InvalidBalance", passed |-> 0]
    ELSE checkParents(t, n, t.node[n].parents, 0)

RECURSIVE addCommit(_, _, _)
\* The critical region of Tangle::add: for each parent, erase it from the
\* tips, append the node to its children and append the node to the tips.
addCommit(t, n, parents) ==
    IF parents = <<>> THEN t
    ELSE LET p == Head(parents)
         IN  addCommit([t EXCEPT !.tips = Append(Erase(@, p), n),
                                 !.children[p] = Append(@, n)],
                       n, Tail(parents))

\* TransactionNode::ownWeight, in fifths.
ownWeight(nd) ==
    IF nd.miningDifficulty < FullWeight THEN nd.miningDifficulty ELSE FullWeight

RECURSIVE SumWeights(_, _)
\* The sum of cumulativeWeight over a children list, entry by entry.
SumWeights(t, cs) ==
    IF cs = <<>> THEN 0
    ELSE t.node[Head(cs)].cumulativeWeight + SumWeights(t, Tail(cs))

RECURSIVE updateCumulativeWeights(_, _)
\* Fault for C14: the update that never queues the parents of a node.
updateCumulativeWeightsSourceOnly(t, q) ==
    IF q = <<>> THEN t
    ELSE LET head == Head(q)
             weight == ownWeight(t.node[head]) + SumWeights(t, t.children[head])
         IN  updateCumulativeWeights(
                 [t EXCEPT !.node[head].cumulativeWeight = weight], Tail(q))

\* Tangle::updateCumulativeWeights: q is the queue, which starts with the new
\* node; each node popped gets its own weight plus the weights its children
\* hold at that moment, and its parents are queued behind it.  add starts it
\* in a detached thread, which is a process of its own: see MineAndAdd.
updateCumulativeWeights(t, q) ==
    IF q = <<>> THEN t
    ELSE LET head == Head(q)
             weight == ownWeight(t.node[head]) + SumWeights(t, t.children[head])
         IN  updateCumulativeWeights(
                 [t EXCEPT !.node[head].cumulativeWeight = weight],
                 Tail(q) \o t.node[head].parents)

\* Fault for C5: one loop that checks a parent and links the node to it before
\* it checks the next parent, so the parents that passed are linked at a throw.
addStructureEager(t, n, checked) ==
    IF checked.result = "ok" THEN addCommit(t, n, t.node[n].parents)
    ELSE addCommit(t, n, SubSeq(t.node[n].parents, 1, checked.passed))

\* The tangle Tangle::add leaves when its checks ended with `checked`.
addStructure(t, n, checked) ==
    IF checked.result = "ok" THEN addCommit(t, n, t.node[n].parents) ELSE t

\* Tangle::add(node): the tangle it leaves and how it ended.
add(t, n) ==
    LET checked == addChecks(t, n)
    IN  [t |-> addStructure(t, n, checked),
         result |-> checked.result, passed |-> checked.passed]

\* ------------------------------------------------------------- removeTip
\* Fault for C9: removeTip without the check that the node has no children.
removeTipChecksAnyNode(t, n) ==
    IF find(t, n) = Null THEN "NodeNotFound" ELSE "ok"

\* The checks of Tangle::removeTip before its critical region.
removeTipChecks(t, n) ==
    IF find(t, n) = Null THEN "NodeNotFound"
    ELSE IF t.children[n] # <<>> THEN "NotATip"
    ELSE "ok"

RECURSIVE removeFromParents(_, _, _)
\* Fault for C8: the loop over the parents that never marks a parent as a tip.
removeFromParentsNoTip(t, n, parents) ==
    IF parents = <<>> THEN t
    ELSE removeFromParents([t EXCEPT !.children[Head(parents)] = Erase(@, n)],
                           n, Tail(parents))

\* The loop of removeTip over node->parents: erase the node from the parent's
\* children and push the parent to the tips when it has no child left.
removeFromParents(t, n, parents) ==
    IF parents = <<>> THEN t
    ELSE LET p == Head(parents)
             left == Erase(t.children[p], n)
         IN  removeFromParents(
                 [t EXCEPT !.children[p] = left,
                           !.tips = IF left = <<>> THEN Append(@, p) ELSE @],
                 n, Tail(parents))

\* The critical region of Tangle::removeTip.
removeTipCommit(t, n) ==
    LET u == removeFromParents(t, n, t.node[n].parents)
    IN  [u EXCEPT !.tips = Erase(@, n), !.node[n].parents = <<>>]

\* Tangle::removeTip(node) for a non-null node.
removeTip(t, n) ==
    LET checked == removeTipChecks(t, n)
    IN  [t |-> IF checked = "ok" THEN removeTipCommit(t, n) ELSE t,
         result |-> checked]

\* ------------------------------------------------------------- setGenesis
\* What a call that never returns leaves in `last`.
Crash == "crash"
Hang == "hang"
\* The undefined read that kills the process (the others yield a pointer).
Dies == 0 - 1

RECURSIVE removeTips(_, _, _)
\* The for loop of setGenesis: `size` times removeTip(tips[0]).  Reading
\* tips[0] of an empty vector is undefined behaviour: `ub` is what the read
\* yields: a null pointer, some object, or Dies when the process dies of it.
removeTips(t, size, ub) ==
    IF size = 0 THEN [t |-> t, result |-> "ok"]
    ELSE IF t.tips = <<>> /\ ub = Dies THEN [t |-> t, result |-> Crash]
    ELSE IF t.tips = <<>> /\ ub = Null THEN removeTips(t, size - 1, ub)
    ELSE LET r == removeTip(t, IF t.tips = <<>> THEN ub ELSE Head(t.tips))
         IN  IF r.result # "ok" THEN r ELSE removeTips(r.t, size - 1, ub)

RECURSIVE freeChildren(_, _)
\* The while loop of setGenesis: until the old genesis has no child.  With
\* no tip to remove the loop never ends.
freeChildren(t, ub) ==
    IF t.children[t.genesis] = <<>> THEN [t |-> t, result |-> "ok"]
    ELSE IF t.tips = <<>> THEN [t |-> t, result |-> Hang]
    ELSE LET r == removeTips(t, Len(t.tips), ub)
         IN  IF r.result # "ok" THEN r ELSE freeChildren(r.t, ub)

\* Tangle::setGenesis(g) for a non-null g.
setGenesis(t, g, ub) ==
    LET marked == [t EXCEPT !.node[g].isGenesis = TRUE]
        r == freeChildren(marked, ub)
    IN  IF r.result = "ok" THEN [t |-> [r.t EXCEPT !.genesis = g], result |-> "ok"]
        ELSE r

\* ------------------------------------------------------------- networking
\* INVALID_HASH, which is the hash of no transaction: what a message holds
\* as validity hash when that does not match its transaction.
INVALID_HASH == 0 - 2

\* The Transaction part of node object n, as a message carries it.  The hash
\* is the content address: a node created from the same parents, inputs and
\* outputs on another peer has the same hash.
Transaction(t, n) ==
    [hash |-> n, parentHashes |-> t.node[n].parents,
     inputs |-> t.node[n].inputs, outputs |-> t.node[n].outputs]

\* The constructors of the messages: the validity hash is the hash.
SyncGenesisRequest(transaction) ==
    [type |-> "SyncGenesisRequest", validityHash |-> transaction.hash,
     transaction |-> transaction]
AddTransactionRequest(transaction) ==
    [type |-> "AddTransactionRequest", validityHash |-> transaction.hash,
     transaction |-> transaction]
SynchronizationAddTransactionRequest(transaction) ==
    [type |-> "SynchronizationAddTransactionRequest",
     validityHash |-> transaction.hash, transaction |-> transaction]

\* The NetworkedTangle object as one value, with what its network has been
\* handed to send.
NetworkedTangle ==
    [t |-> Tangle, networkQueue |-> networkQueue,
     listeningForGenesisSync |-> listeningForGenesisSync, sent |-> sent]

\* Fault for C17: the add that sends the request before the base add.
addSendFirst(r, n, out) ==
    [r |-> [r EXCEPT !.t = add(r.t, n).t], result |-> add(r.t, n).result,
     sent |-> Append(out, AddTransactionRequest(Transaction(r.t, n)))]

\* NetworkedTangle::add(node): the base add, then the request to the peers;
\* an exception of the base add leaves before the send.
NetworkedTangle_add(r, n, out) ==
    LET a == add(r.t, n)
    IN  IF a.result # "ok" THEN [r |-> r, result |-> a.result, sent |-> out]
        ELSE [r |-> [r EXCEPT !.t = a.t], result |-> "ok",
              sent |-> Append(out, AddTransactionRequest(Transaction(a.t, n)))]

RECURSIVE recursiveSendTangle(_, _)
\* Fault for C29: the stream that sends the children of a node before it.
recursiveSendTangleChildrenFirst(t, n) ==
    LET below[i \in 0..Len(t.children[n])] ==
            IF i = 0 THEN <<>>
            ELSE below[i - 1] \o recursiveSendTangle(t, t.children[n][i])
    IN  below[Len(t.children[n])]
        \o <<IF n = t.genesis THEN SyncGenesisRequest(Transaction(t, n))
             ELSE SynchronizationAddTransactionRequest(Transaction(t, n))>>

\* TangleSynchronizeRequest::recursiveSendTangle: the messages sent for node n
\* and, child by child, for everything below it.
recursiveSendTangle(t, n) ==
    LET below[i \in 0..Len(t.children[n])] ==
            IF i = 0 THEN <<>>
            ELSE below[i - 1] \o recursiveSendTangle(t, t.children[n][i])
    IN  <<IF n = t.genesis THEN SyncGenesisRequest(Transaction(t, n))
          ELSE SynchronizationAddTransactionRequest(Transaction(t, n))>>
        \o below[Len(t.children[n])]

\* Fault for C18: the listener that replaces the genesis whatever the flag.
SyncGenesisRequest_listenerAlways(r, msg) ==
    LET h == msg.transaction.hash
    IN  IF h # msg.validityHash THEN [r |-> r, result |-> "InvalidHash"]
        ELSE IF r.t.genesis = h THEN [r |-> r, result |-> "ok"]
        ELSE [r |-> [r EXCEPT
                       !.t.node[h] = TransactionNode(<<>>, msg.transaction.inputs,
                                                     msg.transaction.outputs),
                       !.t.children[h] = <<>>,
                       !.t.genesis = h,
                       !.listeningForGenesisSync = FALSE],
              result |-> "ok"]

\* Fault for C24: the listener that replaces the genesis and keeps listening.
SyncGenesisRequest_listenerKeepsFlag(r, msg) ==
    LET h == msg.transaction.hash
    IN  IF h # msg.validityHash THEN [r |-> r, result |-> "InvalidHash"]
        ELSE IF r.t.genesis = h THEN [r |-> r, result |-> "ok"]
        ELSE IF ~r.listeningForGenesisSync THEN [r |-> r, result |-> "ok"]
        ELSE [r |-> [r EXCEPT
                       !.t.node[h] = TransactionNode(<<>>, msg.transaction.inputs,
                                                     msg.transaction.outputs),
                       !.t.children[h] = <<>>,
                       !.t.genesis = h],
              result |-> "ok"]

\* SyncGenesisRequest::listener: the genesis pointer is assigned a node
\* created from the transaction, without parents; tips and the old nodes are
\* left as they are.
SyncGenesisRequest_listener(r, msg) ==
    LET h == msg.transaction.hash
    IN  IF h # msg.validityHash THEN [r |-> r, result |-> "InvalidHash"]
        ELSE IF r.t.genesis = h THEN [r |-> r, result |-> "ok"]
        ELSE IF ~r.listeningForGenesisSync THEN [r |-> r, result |-> "ok"]
        ELSE [r |-> [r EXCEPT
                       !.t.node[h] = TransactionNode(<<>>, msg.transaction.inputs,
                                                     msg.transaction.outputs),
                       !.t.children[h] = <<>>,
                       !.t.genesis = h,
                       !.listeningForGenesisSync = FALSE],
              result |-> "ok"]

\* Some parent hash of the transaction is not found in the tangle.
ParentMissing(t, transaction) ==
    \E i \in 1..Len(transaction.parentHashes) :
        find(t, transaction.parentHashes[i]) = Null

\* Fault for C26: the attempt that adds through NetworkedTangle::add, which
\* sends the transaction on.
attempToAddTransactionBroadcast(r, transaction) ==
    LET h == transaction.hash
        withNode == [r EXCEPT !.t.node[h] =
                        TransactionNode(transaction.parentHashes,
                                        transaction.inputs, transaction.outputs)]
        a == NetworkedTangle_add(withNode, h, r.sent)
    IN  IF ParentMissing(r.t, transaction)
        THEN [r |-> [r EXCEPT !.networkQueue = Append(@, transaction)],
              result |-> "ok"]
        ELSE IF a.result # "ok" THEN [r |-> r, result |-> a.result]
        ELSE [r |-> IF transaction.parentHashes = <<>>
                    THEN [r EXCEPT !.sent = a.sent]
                    ELSE [r EXCEPT !.t = a.r.t, !.sent = a.sent],
              result |-> "ok"]

\* AddTransactionRequest::attempToAddTransaction: with a parent missing the
\* transaction is queued; otherwise a node is created from the parents found
\* and handed to the base add, whose exception leaves the listener.  A node
\* without parents that add accepts is linked nowhere and dropped.
attempToAddTransaction(r, transaction) ==
    LET h == transaction.hash
        withNode == [r.t EXCEPT !.node[h] =
                        TransactionNode(transaction.parentHashes,
                                        transaction.inputs, transaction.outputs)]
        a == add(withNode, h)
    IN  IF ParentMissing(r.t, transaction)
        THEN [r |-> [r EXCEPT !.networkQueue = Append(@, transaction)],
              result |-> "ok"]
        ELSE IF a.result # "ok" THEN [r |-> r, result |-> a.result]
        ELSE [r |-> IF transaction.parentHashes = <<>> THEN r
                    ELSE [r EXCEPT !.t = a.t],
              result |-> "ok"]

RECURSIVE drain(_, _)
\* Fault for C16: the loop that does not queue again what is still an orphan.
drainDropping(r, listSize) ==
    IF listSize = 0 THEN [r |-> r, result |-> "ok"]
    ELSE LET front == Head(r.networkQueue)
             popped == [r EXCEPT !.networkQueue = Tail(@)]
             a == attempToAddTransaction(popped, front)
             left == IF ParentMissing(popped.t, front) THEN popped ELSE a.r
         IN  IF a.result # "ok" THEN a ELSE drain(left, listSize - 1)

\* The loop of AddTransactionRequest::listener over the queue: listSize times
\* pop the front and attempt it; an exception leaves the loop.
drain(r, listSize) ==
    IF listSize = 0 THEN [r |-> r, result |-> "ok"]
    ELSE LET front == Head(r.networkQueue)
             popped == [r EXCEPT !.networkQueue = Tail(@)]
             a == attempToAddTransaction(popped, front)
         IN  IF a.result # "ok" THEN a ELSE drain(a.r, listSize - 1)

\* Fault for C27: the listener that does not compare the hashes.
AddTransactionRequest_listenerUnchecked(r, msg) ==
    LET a == attempToAddTransaction(r, msg.transaction)
    IN  IF a.result # "ok" THEN a
        ELSE drain(a.r, Len(a.r.networkQueue))

\* AddTransactionRequest::listener.
AddTransactionRequest_listener(r, msg) ==
    LET a == attempToAddTransaction(r, msg.transaction)
    IN  IF msg.transaction.hash # msg.validityHash
        THEN [r |-> r, result |-> "InvalidHash"]
        ELSE IF a.result # "ok" THEN a
        ELSE drain(a.r, Len(a.r.networkQueue))

\* SynchronizationAddTransactionRequest::listener: the same listener.
SynchronizationAddTransactionRequest_listener(r, msg) ==
    AddTransactionRequest_listener(r, msg)

\* The listener the network calls for a message.
listener(r, msg) ==
    IF msg.type = "SyncGenesisRequest" THEN SyncGenesisRequest_listener(r, msg)
    ELSE IF msg.type = "AddTransactionRequest"
         THEN AddTransactionRequest_listener(r, msg)
    ELSE SynchronizationAddTransactionRequest_listener(r, msg)

\* ------------------------------------------------------------- the program
Inputs == SeqsUpTo([account : Accounts, amount : Amounts], MaxInputs)
Outputs == SeqsUpTo([account : Accounts, amount : Amounts], MaxOutputs)

\* No walk is in progress and none has returned.
NoWalk == [start |-> Null, at |-> Null, result |-> Null]
\* The threads that call the Tangle at the same time.
Threads == 1..NumThreads
\* A thread that is in no call.
Idle == [op |-> "none", pc |-> "idle", n |-> Null, i |-> 0]
\* No generateWalkSet call is in progress and none has returned.
NoWalkSet ==
    [this |-> Null, localDepth |-> 0, q |-> <<>>, out |-> <<>>, pc |-> "idle",
     result |-> <<>>]
\* No peer has streamed its tangle.
NoPeer == [genesis |-> Null, children |-> [n \in NodeIds |-> <<>>]]

\* Tangle::Tangle(): a genesis without parents, inputs or outputs; no tips.
Init ==
    /\ node = [n \in NodeIds |-> NoNode]
    /\ created = 1
    /\ children = [n \in NodeIds |-> <<>>]
    /\ tips = <<>>
    /\ genesis = 1
    /\ last = [op |-> "Tangle", node |-> 1, result |-> "ok"]
    /\ boot = "fresh"
    /\ removed = FALSE
    /\ walk = NoWalk
    /\ networkQueue = <<>>
    /\ listeningForGenesisSync = FALSE
    /\ sent = <<>>
    /\ inflight = <<>>
    /\ peerA = NoPeer
    /\ thread = [k \in Threads |-> Idle]
    /\ mutex = Null
    /\ tasks = <<>>
    /\ walkSet = NoWalkSet

\* The process is alive: no call has crashed or hung.
Running == last.result \notin {Crash, Hang}

\* t.add(TransactionNode::create(parents, inputs, outputs)): a new object is
\* created and added.  When add throws, the caller drops the object and
\* `last` keeps the last call that returned.
AddUpTo(limit, parents, inputs, outputs) ==
    /\ Running
    /\ created < limit
    /\ LET n == created + 1
           t == [Tangle EXCEPT !.node[n] = TransactionNode(parents, inputs, outputs)]
           r == add(t, n)
       IN  /\ node' = IF r.result = "ok" THEN r.t.node ELSE node
           /\ created' = IF r.result = "ok" THEN n ELSE created
           /\ children' = r.t.children
           /\ tips' = r.t.tips
           /\ last' = IF r.result = "ok"
                      THEN [op |-> "add", node |-> n, result |-> "ok"] ELSE last
    /\ UNCHANGED <<threadVars, genesis, boot, removed, walk, netVars>>

Add(parents, inputs, outputs) == AddUpTo(MaxNodes, parents, inputs, outputs)

\* t.add(n) of an object that exists.
AddAgain(n) ==
    /\ Running
    /\ n \in 1..created
    /\ LET r == add(Tangle, n)
       IN  /\ node' = r.t.node
           /\ children' = r.t.children
           /\ tips' = r.t.tips
           /\ last' = IF r.result = "ok"
                      THEN [op |-> "addAgain", node |-> n, result |-> "ok"] ELSE last
    /\ UNCHANGED <<threadVars, created, genesis, boot, removed, walk, netVars>>

\* t.removeTip(n).
RemoveTip(n) ==
    /\ Running
    /\ n \in 1..created
    /\ LET r == removeTip(Tangle, n)
       IN  /\ node' = r.t.node
           /\ children' = r.t.children
           /\ tips' = r.t.tips
           /\ last' = IF r.result = "ok"
                      THEN [op |-> "removeTip", node |-> n, result |-> "ok"] ELSE last
           /\ removed' = (removed \/ r.result = "ok")
    /\ UNCHANGED <<threadVars, created, genesis, boot, walk, netVars>>

\* t.setGenesis(TransactionNode::create({}, {}, {{account, amount}})), as main
\* does.  The outcomes of an undefined read are enumerated only when the call
\* makes one.  A call that throws has removed the tips before the throw.
SetGenesis(account, amount, ub) ==
    /\ Running
    /\ created < MaxNodes
    /\ LET g == created + 1
           t == [Tangle EXCEPT !.node[g] = TransactionNode(<<>>, <<>>,
                                   <<[account |-> account, amount |-> amount]>>)]
           r == setGenesis(t, g, ub)
       IN  /\ ub # Dies => setGenesis(t, g, Dies).result = Crash
           /\ node' = IF r.result = "ok" THEN r.t.node
                      ELSE [r.t.node EXCEPT ![g] = NoNode]
           /\ created' = IF r.result = "ok" THEN g ELSE created
           /\ children' = r.t.children
           /\ tips' = r.t.tips
           /\ genesis' = r.t.genesis
           /\ last' = [op |-> "setGenesis", node |-> IF r.result = "ok" THEN g ELSE Null,
                       result |-> r.result]
    /\ boot' = IF boot = "fresh" /\ created = 1 /\ ~removed THEN "boot" ELSE "swapped"
    /\ UNCHANGED <<threadVars, removed, walk, netVars>>

Next ==
    \/ \E parents \in SeqsUpTo(1..created, MaxParents), inputs \in Inputs,
          outputs \in Outputs :
            Add(parents, inputs, outputs)
    \/ \E n \in NodeIds : AddAgain(n)
    \/ \E n \in NodeIds : RemoveTip(n)
    \/ \E account \in Accounts, amount \in 1..MaxSupply,
          ub \in {Dies, Null} \cup (1..created) :
            SetGenesis(account, amount, ub)

Spec == Init /\ [][Next]_vars

\* The ledger in use, as main and the CLI drive it: the genesis that funds an
\* account is set on the fresh tangle, then transactions with one parent, at
\* most one input and at most one output are added.
Bootstrap(account, amount) == created = 1 /\ SetGenesis(account, amount, Dies)

Transfer(parent, inputs, outputs) ==
    /\ boot = "boot"
    /\ Len(inputs) <= 1 /\ Len(outputs) <= 1
    /\ AddUpTo(MaxLedgerNodes, <<parent>>, inputs, outputs)

LedgerNext ==
    \/ \E account \in Accounts, amount \in 1..MaxSupply : Bootstrap(account, amount)
    \/ \E parent \in 1..created, inputs \in Inputs, outputs \in Outputs :
            Transfer(parent, inputs, outputs)

LedgerSpec == Init /\ [][LedgerNext]_vars

\* ------------------------------------------------------------- the network
\* The message inflight[i] leaves the network.
Without(seq, i) == SubSeq(seq, 1, i - 1) \o SubSeq(seq, i + 1, Len(seq))

\* The inputs of a transaction on the network: they spend from account 1.
NetInputs == SeqsUpTo([account : {1}, amount : Amounts], MaxNetInputs)

\* t.add(TransactionNode::create(parents, inputs, {})) on the NetworkedTangle.
\* When the base add throws nothing is sent and the object is dropped.
NetworkedAdd(parents, inputs) ==
    /\ Running
    /\ created < MaxNetNodes
    /\ LET n == created + 1
           r == [NetworkedTangle EXCEPT
                    !.t.node[n] = TransactionNode(parents, inputs, <<>>)]
           x == NetworkedTangle_add(r, n, sent)
       IN  /\ x.result = "ok"
           /\ node' = x.r.t.node
           /\ created' = n
           /\ children' = x.r.t.children
           /\ tips' = x.r.t.tips
           /\ sent' = x.sent
           /\ last' = [op |-> "NetworkedTangle_add", node |-> n, result |-> "ok"]
    /\ UNCHANGED <<threadVars, genesis, boot, removed, walk, networkQueue,
                   listeningForGenesisSync, inflight, peerA>>

\* A peer has created a transaction on parents it knows, which this peer
\* need not hold, and its AddTransactionRequest is on its way here.  The
\* object of the peer stands for the content behind the hash.  The request
\* that arrives is the one sent, or one whose validity hash is not the hash
\* of its transaction.
PeerAdds(parents, inputs, intact) ==
    /\ created < MaxNetNodes
    /\ LET n == created + 1
           t == [Tangle EXCEPT !.node[n] = TransactionNode(parents, inputs, <<>>)]
           request == AddTransactionRequest(Transaction(t, n))
       IN  /\ node' = t.node
           /\ created' = n
           /\ inflight' = Append(inflight,
                                 IF intact THEN request
                                 ELSE [request EXCEPT !.validityHash = INVALID_HASH])
    /\ UNCHANGED <<threadVars, children, tips, genesis, last, boot, removed, walk,
                   networkQueue, listeningForGenesisSync, sent, peerA>>

\* A peer that was asked for its tangle sends its genesis, which funds
\* account 1.  The request that arrives is the one sent, or one whose
\* validity hash is not the hash of its transaction.
PeerSendsGenesis(amount, intact) ==
    /\ created < MaxNetNodes
    /\ LET n == created + 1
           t == [Tangle EXCEPT !.node[n] =
                    TransactionNode(<<>>, <<>>, <<[account |-> 1, amount |-> amount]>>)]
           request == SyncGenesisRequest(Transaction(t, n))
       IN  /\ node' = t.node
           /\ created' = n
           /\ inflight' = Append(inflight,
                                 IF intact THEN request
                                 ELSE [request EXCEPT !.validityHash = INVALID_HASH])
    /\ UNCHANGED <<threadVars, children, tips, genesis, last, boot, removed, walk,
                   networkQueue, listeningForGenesisSync, sent, peerA>>

\* A peer that holds the genesis of this peer sends it.
PeerSendsSameGenesis ==
    /\ \A i \in 1..Len(inflight) : inflight[i].transaction.hash # genesis
    /\ inflight' = Append(inflight, SyncGenesisRequest(Transaction(Tangle, genesis)))
    /\ UNCHANGED <<threadVars, tangleVars, walk, networkQueue, listeningForGenesisSync,
                   sent, peerA>>

\* network->send_object(TangleSynchronizeRequest(t)): the constructor sets the
\* flag.
RequestSynchronization ==
    /\ Running
    /\ ~listeningForGenesisSync
    /\ Len(sent) < MaxNetNodes
    /\ listeningForGenesisSync' = TRUE
    /\ sent' = Append(sent, [type |-> "TangleSynchronizeRequest"])
    /\ UNCHANGED <<threadVars, tangleVars, walk, networkQueue, inflight, peerA>>

\* The message inflight[i] arrives as it was sent, and its listener runs to
\* its end or to its exception, which the network catches.
Receive(i) ==
    /\ Running
    /\ i \in 1..Len(inflight)
    /\ \E x \in {listener(NetworkedTangle, inflight[i])} :
           /\ node' = x.r.t.node
           /\ children' = x.r.t.children
           /\ tips' = x.r.t.tips
           /\ genesis' = x.r.t.genesis
           /\ networkQueue' = x.r.networkQueue
           /\ listeningForGenesisSync' = x.r.listeningForGenesisSync
           /\ sent' = x.r.sent
           /\ last' = [op |-> inflight[i].type,
                       node |-> inflight[i].transaction.hash,
                       result |-> x.result]
    /\ inflight' = Without(inflight, i)
    /\ UNCHANGED <<threadVars, created, boot, removed, walk, peerA>>

\* Transactions spread: this peer adds its own and sends them, its peers add
\* theirs, and their requests arrive here in any order.
GossipNext ==
    \/ \E parents \in SeqsUpTo(1..created, MaxNetParents), inputs \in NetInputs :
            NetworkedAdd(parents, inputs)
    \/ \E parents \in SeqsUpTo(1..created, MaxNetParents), inputs \in NetInputs,
          intact \in BOOLEAN :
            PeerAdds(parents, inputs, intact)
    \/ \E i \in 1..MaxNetNodes : Receive(i)

GossipSpec == Init /\ [][GossipNext]_vars

\* Genesis transactions arrive, asked for or not, among transactions of peers.
GenesisNext ==
    \/ RequestSynchronization
    \/ \E amount \in Amounts, intact \in BOOLEAN : PeerSendsGenesis(amount, intact)
    \/ PeerSendsSameGenesis
    \/ \E parents \in SeqsUpTo(1..created, MaxNetParents) : PeerAdds(parents, <<>>, TRUE)
    \/ \E i \in 1..MaxNetNodes : Receive(i)

GenesisSpec == Init /\ [][GenesisNext]_vars

\* A fresh peer B sends TangleSynchronizeRequest(t) to peer A, whose tangle the
\* variables have held so far, and A's listener streams its tangle to B.  From
\* here on the variables hold the replica of B: a fresh Tangle that listens
\* for a genesis, with the messages of A on their way to it in the order A
\* sent them; peerA keeps the tangle of A.
TangleSynchronizeRequest ==
    /\ Running
    /\ boot = "boot"
    /\ peerA' = [genesis |-> genesis, children |-> children]
    /\ inflight' = recursiveSendTangle(Tangle, genesis)
    /\ node' = [n \in NodeIds |-> NoNode]
    /\ children' = [n \in NodeIds |-> <<>>]
    /\ tips' = <<>>
    /\ genesis' = 1
    /\ networkQueue' = <<>>
    /\ listeningForGenesisSync' = TRUE
    /\ sent' = Append(sent, [type |-> "TangleSynchronizeRequest"])
    /\ last' = [op |-> "TangleSynchronizeRequest", node |-> genesis, result |-> "ok"]
    /\ boot' = "synchronizing"
    /\ UNCHANGED <<threadVars, created, removed, walk>>

\* Peer B handles the next message of the stream.
ReceiveNext == boot = "synchronizing" /\ Receive(1)

\* Initial synchronization: peer A builds its ledger, peer B asks for it and
\* handles the stream in the order of emission.
SyncNext ==
    \/ LedgerNext
    \/ TangleSynchronizeRequest
    \/ ReceiveNext

SyncSpec == Init /\ [][SyncNext]_vars

\* t.add(createAndMine(...)) of a transaction without inputs or outputs, mined
\* at `difficulty`, followed by the weight thread that add has started, which
\* runs to its end before the next operation.  The parents are the caller's.
MineAndAdd(parents, difficulty) ==
    /\ Running
    /\ walk = NoWalk
    /\ created < MaxWeightNodes
    /\ LET n == created + 1
           t == [Tangle EXCEPT !.node[n] = create(parents, <<>>, <<>>, difficulty)]
           r == add(t, n)
       IN  /\ r.result = "ok"
           /\ node' = updateCumulativeWeights(r.t, <<n>>).node
           /\ created' = n
           /\ children' = r.t.children
           /\ tips' = r.t.tips
           /\ last' = [op |-> "add", node |-> n, result |-> "ok"]
    /\ UNCHANGED <<threadVars, genesis, boot, removed, walk, netVars>>

WeightNext ==
    \/ \E parents \in SeqsUpTo(1..created, MaxParents), difficulty \in 1..MaxDifficulty :
            MineAndAdd(parents, difficulty)
    \/ \E n \in NodeIds : walk = NoWalk /\ RemoveTip(n)

WeightSpec == Init /\ [][WeightNext]_vars

\* ------------------------------------------------------------- the threads
\* Parent lists without a repeated parent, and transactions with at most one
\* input and one output: the calls that a single thread makes without fault.
ThreadParents ==
    {parents \in SeqsUpTo(1..created, MaxParents) :
        \A i, j \in 1..Len(parents) : parents[i] = parents[j] => i = j}
ThreadInputs == SeqsUpTo([account : Accounts, amount : Amounts], 1)

\* Thread k calls t.add(TransactionNode::create(parents, inputs, outputs)) and
\* runs the part of add before the critical region: the validation, the
\* balance loop and the loop that looks for the parents.  These take no
\* mutex.  A call whose checks throw returns at once and is not a step.
AddCall(k, parents, inputs, outputs) ==
    /\ Running
    /\ thread[k] = Idle
    /\ created < MaxThreadNodes
    /\ LET n == created + 1
           t == [Tangle EXCEPT !.node[n] = TransactionNode(parents, inputs, outputs)]
       IN  /\ addChecks(t, n).result = "ok"
           /\ node' = t.node
           /\ created' = n
           /\ thread' = [thread EXCEPT ![k] =
                            [op |-> "add", pc |-> "checked", n |-> n, i |-> 1]]
    /\ UNCHANGED <<children, tips, genesis, last, boot, removed, walk, netVars,
                   mutex, tasks, walkSet>>

\* std::scoped_lock lock(mutex) of Tangle::add.
AddLock(k) ==
    /\ thread[k].op = "add"
    /\ thread[k].pc = "checked"
    /\ mutex = Null
    /\ mutex' = k
    /\ thread' = [thread EXCEPT ![k].pc = "linking"]
    /\ UNCHANGED <<tangleVars, walk, netVars, tasks, walkSet>>

\* One round of the loop of the critical region of Tangle::add, under the
\* write lock of the tips: the parent leaves the tips, the node joins the
\* children of the parent and the tips.  The lock on the tips is released at
\* the end of the round.
AddLink(k) ==
    /\ thread[k].op = "add"
    /\ thread[k].pc = "linking"
    /\ thread[k].i <= Len(node[thread[k].n].parents)
    /\ LET n == thread[k].n
           t == addCommit(Tangle, n, <<node[n].parents[thread[k].i]>>)
       IN  /\ children' = t.children
           /\ tips' = t.tips
    /\ thread' = [thread EXCEPT ![k].i = @ + 1]
    /\ UNCHANGED <<node, created, genesis, last, boot, removed, walk, netVars,
                   mutex, tasks, walkSet>>

\* The end of the critical region of Tangle::add and its return.  The weight
\* thread it starts writes cumulativeWeight only, which no call made here
\* reads, and is left out.
AddReturn(k) ==
    /\ thread[k].op = "add"
    /\ thread[k].pc = "linking"
    /\ thread[k].i > Len(node[thread[k].n].parents)
    /\ mutex' = Null
    /\ thread' = [thread EXCEPT ![k] = Idle]
    /\ last' = [op |-> "add", node |-> thread[k].n, result |-> "ok"]
    /\ UNCHANGED <<node, created, children, tips, genesis, boot, removed, walk,
                   netVars, tasks, walkSet>>

\* Thread k calls t.removeTip(n) and runs its checks, which take no mutex.  A
\* call whose checks throw returns at once and is not a step.
RemoveCall(k, n) ==
    /\ Running
    /\ thread[k] = Idle
    /\ n \in 1..created
    /\ n # genesis
    /\ removeTipChecks(Tangle, n) = "ok"
    /\ thread' = [thread EXCEPT ![k] =
                     [op |-> "removeTip", pc |-> "checked", n |-> n, i |-> 1]]
    /\ UNCHANGED <<tangleVars, walk, netVars, mutex, tasks, walkSet>>

\* The critical region of Tangle::removeTip, from the lock of the mutex to its
\* release, and the return.
RemoveCommit(k) ==
    /\ thread[k].op = "removeTip"
    /\ thread[k].pc = "checked"
    /\ mutex = Null
    /\ LET t == removeTipCommit(Tangle, thread[k].n)
       IN  /\ node' = t.node
           /\ children' = t.children
           /\ tips' = t.tips
    /\ removed' = TRUE
    /\ thread' = [thread EXCEPT ![k] = Idle]
    /\ last' = [op |-> "removeTip", node |-> thread[k].n, result |-> "ok"]
    /\ UNCHANGED <<created, genesis, boot, walk, netVars, mutex, tasks, walkSet>>

\* Every thread is out of its call.
AllReturned == \A k \in Threads : thread[k] = Idle

\* Threads that add and remove at the same time, on the fresh tangle or on
\* one whose genesis main has set.
ThreadNext ==
    \/ \E account \in Accounts, amount \in 1..MaxSupply :
            AllReturned /\ Bootstrap(account, amount)
    \/ \E k \in Threads, parents \in ThreadParents, inputs \in ThreadInputs,
          outputs \in Outputs :
            AddCall(k, parents, inputs, outputs)
    \/ \E k \in Threads : AddLock(k)
    \/ \E k \in Threads : AddLink(k)
    \/ \E k \in Threads : AddReturn(k)
    \/ \E k \in Threads, n \in NodeIds : RemoveCall(k, n)
    \/ \E k \in Threads : RemoveCommit(k)

ThreadSpec == Init /\ [][ThreadNext]_vars

\* Thread k calls t.add(n) with the node object another thread is adding at
\* that moment, and runs the part of add before the critical region.  A call
\* whose checks throw returns at once and is not a step.
AddSameCall(k, n) ==
    /\ Running
    /\ thread[k] = Idle
    /\ n \in 1..created
    /\ \E j \in Threads \ {k} : thread[j].op = "add" /\ thread[j].n = n
    /\ addChecks(Tangle, n).result = "ok"
    /\ thread' = [thread EXCEPT ![k] =
                     [op |-> "add", pc |-> "checked", n |-> n, i |-> 1]]
    /\ UNCHANGED <<tangleVars, walk, netVars, mutex, tasks, walkSet>>

\* The threads of ThreadSpec, which may also add the same node at the same time.
SameNodeNext ==
    \/ ThreadNext
    \/ \E k \in Threads, n \in NodeIds : AddSameCall(k, n)

SameNodeSpec == Init /\ [][SameNodeNext]_vars

\* ------------------------------------------------------------- the weight threads
\* t.add(createAndMine(...)) of a transaction without inputs or outputs.  The
\* add returns after it has started its weight thread, which then runs beside
\* the caller and beside the weight threads of earlier adds.
MineAndAddDetached(parents) ==
    /\ Running
    /\ created < MaxRaceNodes
    /\ LET n == created + 1
           t == [Tangle EXCEPT !.node[n] = create(parents, <<>>, <<>>, DefaultDifficulty)]
           r == add(t, n)
       IN  /\ r.result = "ok"
           /\ node' = r.t.node
           /\ created' = n
           /\ children' = r.t.children
           /\ tips' = r.t.tips
           /\ last' = [op |-> "add", node |-> n, result |-> "ok"]
           /\ tasks' = Append(tasks, [q |-> <<n>>, head |-> Null, weight |-> 0])
    /\ UNCHANGED <<genesis, boot, removed, walk, netVars, thread, mutex, walkSet>>

\* Weight thread j pops the head of its queue and sums the own weight of the
\* head and the weights its children hold now, into its local variable.
TaskRead(j) ==
    /\ j \in 1..Len(tasks)
    /\ tasks[j].head = Null
    /\ LET head == Head(tasks[j].q)
       IN  tasks' = [tasks EXCEPT ![j] =
                        [q |-> Tail(tasks[j].q), head |-> head,
                         weight |-> ownWeight(node[head])
                                    + SumWeights(Tangle, children[head])]]
    /\ UNCHANGED <<tangleVars, walk, netVars, thread, mutex, walkSet>>

\* Weight thread j stores its local sum in the head and queues the parents of
\* the head; with its queue empty the thread ends.
TaskWrite(j) ==
    /\ j \in 1..Len(tasks)
    /\ tasks[j].head # Null
    /\ LET head == tasks[j].head
           q == tasks[j].q \o node[head].parents
       IN  /\ node' = [node EXCEPT ![head].cumulativeWeight = tasks[j].weight]
           /\ tasks' = IF q = <<>> THEN Without(tasks, j)
                       ELSE [tasks EXCEPT ![j] = [q |-> q, head |-> Null, weight |-> 0]]
    /\ UNCHANGED <<created, children, tips, genesis, last, boot, removed, walk,
                   netVars, thread, mutex, walkSet>>

\* A sequence of adds whose weight threads run detached.
RaceNext ==
    \/ \E parents \in ThreadParents : MineAndAddDetached(parents)
    \/ \E j \in 1..MaxRaceNodes : TaskRead(j)
    \/ \E j \in 1..MaxRaceNodes : TaskWrite(j)

RaceSpec == Init /\ [][RaceNext]_vars

\* ------------------------------------------------------------- vocabulary
RECURSIVE ReachFrom(_, _, _)
\* The objects reached from `frontier` through children lists.
ReachFrom(t, frontier, seen) ==
    IF frontier = {} THEN seen
    ELSE LET n == CHOOSE x \in frontier : TRUE
             next == Range(t.children[n]) \ (seen \cup {n})
         IN  ReachFrom(t, (frontier \ {n}) \cup next, seen \cup {n})

\* The nodes of the DAG: reachable from the genesis through children lists.
Reachable(t) == ReachFrom(t, {t.genesis}, {})

RECURSIVE Ancestors(_, _)
\* The objects reached from the parents `ps` through parent references.
Ancestors(t, ps) ==
    IF ps = {} THEN {}
    ELSE ps \cup Ancestors(t, UNION {Range(t.node[p].parents) : p \in ps})

RECURSIVE Ledger(_, _, _)
\* Sum of the outputs minus sum of the inputs of `account` over the objects `S`.
Ledger(t, S, account) ==
    IF S = {} THEN 0
    ELSE LET n == CHOOSE x \in S : TRUE
         IN  SumFor(t.node[n].outputs, account) - SumFor(t.node[n].inputs, account)
             + Ledger(t, S \ {n}, account)

\* The tangle before the call t.add(create(parents, inputs, outputs)).
WithNew(parents, inputs, outputs) ==
    [Tangle EXCEPT !.node[created + 1] = TransactionNode(parents, inputs, outputs)]

\* The calls t.add(create(...)) the model can make in the current state.
NewCalls ==
    IF created < MaxNodes
    THEN [parents : SeqsUpTo(1..created, MaxParents), inputs : Inputs, outputs : Outputs]
    ELSE {}

\* add leaves the children lists and the tips of the current tangle as they are.
SameStructure(t) == t.children = children /\ t.tips = tips

\* ------------------------------------------------------------- the walk
\* Fault for C13: the walk that may also step back to a parent.
weightedListWithStepBack(t, n) == Range(t.children[n]) \cup Range(t.node[n].parents)

\* The weightedList of biasedRandomWalk: the children the random draw can
\* choose.  The weight of a child is max(exp(...), DBL_MIN), which is
\* positive, so every entry of the children list can be chosen; a draw at or
\* beyond the total weight ends at the last child.
weightedList(t, n) == Range(t.children[n])

\* node->biasedRandomWalk() is called on a node of the DAG.
BeginWalk(n) ==
    /\ Running
    /\ walk = NoWalk
    /\ n \in Reachable(Tangle)
    /\ walk' = [start |-> n, at |-> n, result |-> Null]
    /\ UNCHANGED <<threadVars, tangleVars, netVars>>

\* One activation of TransactionNode::biasedRandomWalk on the node walk.at: a
\* node without children returns itself, any other recurses into `chosen`.
biasedRandomWalk(chosen) ==
    /\ walk.at # Null
    /\ IF children[walk.at] = <<>>
       THEN chosen = Null /\ walk' = [walk EXCEPT !.at = Null, !.result = walk.at]
       ELSE chosen \in weightedList(Tangle, walk.at)
            /\ walk' = [walk EXCEPT !.at = chosen]
    /\ UNCHANGED <<threadVars, tangleVars, netVars>>

\* The caller has taken the tip the walk returned.
EndWalk ==
    /\ walk.result # Null
    /\ walk' = NoWalk
    /\ UNCHANGED <<threadVars, tangleVars, netVars>>

\* A step of the walk in progress.
Walking == \E chosen \in NodeIds \cup {Null} : biasedRandomWalk(chosen)

\* Transactions are added and tips removed while no walk is in progress, and
\* walks are made from any node of the DAG.
WalkNext ==
    \/ \E parents \in SeqsUpTo(1..created, MaxParents) :
            MineAndAdd(parents, DefaultDifficulty)
    \/ \E n \in NodeIds : walk = NoWalk /\ RemoveTip(n)
    \/ \E n \in NodeIds : BeginWalk(n)
    \/ Walking
    \/ EndWalk

\* A walk in progress is a call that runs: it takes its next step.
WalkSpec == Init /\ [][WalkNext]_vars /\ WF_vars(Walking)

\* ------------------------------------------------------------- the walk set
\* The depth confirmationConfidence asks generateWalkSet for.
WalkSetDepth == 5

RECURSIVE depth(_, _)
\* TransactionNode::depth: the longest path from n to a node without children.
depth(t, n) ==
    IF t.children[n] = <<>> THEN 0
    ELSE LET deepest[i \in 0..Len(t.children[n])] ==
                 IF i = 0 THEN 0
                 ELSE LET d == depth(t, t.children[n][i])
                      IN  IF d > deepest[i - 1] THEN d ELSE deepest[i - 1]
         IN  deepest[Len(t.children[n])] + 1

\* n->confirmationConfidence() is called on a node of the DAG and calls
\* generateWalkSet(5), which queues the children of n, then n, and caches
\* the depth of n.
generateWalkSet(n) ==
    /\ Running
    /\ walkSet = NoWalkSet
    /\ n \in Reachable(Tangle)
    /\ walkSet' = [this |-> n, localDepth |-> depth(Tangle, n),
                   q |-> children[n] \o <<n>>, out |-> <<>>, pc |-> "loop",
                   result |-> <<>>]
    /\ UNCHANGED <<thread, mutex, tasks, tangleVars, walk, netVars>>

\* One round of the while loop of generateWalkSet.  `head` is a reference to
\* the front of the queue that is read after q.pop() has destroyed the
\* element, which is undefined behaviour: the read yields the pointer that was
\* popped, a null pointer, or kills the process (Dies).  The parents that are
\* queued are those of the node the call was made on.
WalkSetRound(head) ==
    /\ Running
    /\ walkSet.pc = "loop"
    /\ walkSet.q # <<>>
    /\ head \in {Head(walkSet.q), Null, Dies}
    /\ LET rest == Tail(walkSet.q)
       IN  IF head = Dies
           THEN /\ walkSet' = [walkSet EXCEPT !.q = rest, !.pc = "crashed"]
                /\ last' = [op |-> "generateWalkSet", node |-> walkSet.this,
                            result |-> Crash]
           ELSE /\ last' = last
                /\ IF head = Null
                   THEN walkSet' = [walkSet EXCEPT !.q = rest]
                   ELSE IF depth(Tangle, head) = walkSet.localDepth + WalkSetDepth
                   THEN walkSet' = [walkSet EXCEPT !.q = rest,
                                        !.out = IF head \in Range(walkSet.out)
                                                THEN walkSet.out
                                                ELSE Append(walkSet.out, head)]
                   ELSE IF node[head].isGenesis
                   THEN walkSet' = [walkSet EXCEPT !.q = rest, !.pc = "returned",
                                        !.result = <<head>>]
                   ELSE /\ Len(rest) + Len(node[walkSet.this].parents) <= MaxWalkSetQueue
                        /\ walkSet' = [walkSet EXCEPT
                                           !.q = rest \o node[walkSet.this].parents]
    /\ UNCHANGED <<thread, mutex, tasks, node, created, children, tips, genesis,
                   boot, removed, walk, netVars>>

\* The queue is empty: generateWalkSet returns the list it has collected.
WalkSetReturn ==
    /\ Running
    /\ walkSet.pc = "loop"
    /\ walkSet.q = <<>>
    /\ walkSet' = [walkSet EXCEPT !.pc = "returned", !.result = walkSet.out]
    /\ UNCHANGED <<thread, mutex, tasks, tangleVars, walk, netVars>>

\* The rest of confirmationConfidence: the list is repeated up to 100
\* entries and a biasedRandomWalk is made from each.  On an empty list the
\* loop dereferences end(), which is undefined behaviour: the process dies
\* or goes on with whatever was read.
confirmationConfidence(ub) ==
    /\ Running
    /\ walkSet.pc = "returned"
    /\ ub \in {Dies, Null}
    /\ ub = Dies => walkSet.result = <<>>
    /\ last' = [op |-> "confirmationConfidence", node |-> walkSet.this,
                result |-> IF ub = Dies THEN Crash ELSE "ok"]
    /\ walkSet' = NoWalkSet
    /\ UNCHANGED <<thread, mutex, tasks, node, created, children, tips, genesis,
                   boot, removed, walk, netVars>>

\* Transactions are added while no call is in progress, on the genesis of the
\* constructor or on the genesis main has set, and confirmationConfidence is
\* called on any node of the DAG.
WalkSetNext ==
    \/ \E account \in Accounts, amount \in 1..MaxSupply :
            walkSet = NoWalkSet /\ Bootstrap(account, amount)
    \/ \E parents \in SeqsUpTo(1..created, MaxParents) :
            walkSet = NoWalkSet /\ AddUpTo(MaxWalkSetNodes, parents, <<>>, <<>>)
    \/ \E n \in NodeIds : generateWalkSet(n)
    \/ \E head \in NodeIds \cup {Null, Dies} : WalkSetRound(head)
    \/ WalkSetReturn
    \/ \E ub \in {Dies, Null} : confirmationConfidence(ub)

\* A call in progress runs: the loop takes its next round and returns when
\* its queue is empty.
WalkSetSpec ==
    /\ Init /\ [][WalkSetNext]_vars
    /\ WF_vars(\E head \in NodeIds \cup {Null, Dies} : WalkSetRound(head))
    /\ WF_vars(WalkSetReturn)

\* ------------------------------------------------------------- C1
\* C1 (as claimed): on a freshly constructed tangle, after any sequence of
\* successful adds, the empty one included, the nodes in tips are exactly the
\* nodes of the DAG without children.
C1_TipsAreChildless ==
    (boot = "fresh" /\ ~removed) =>
        Range(tips) = {n \in Reachable(Tangle) : children[n] = <<>>}

\* ------------------------------------------------------------- C2
\* C2 (as claimed): after setGenesis(g) on the fresh tangle, g holding the
\* single output (K0, v), queryBalance(K0) is v and the tips are exactly {g}.
C2_GenesisBootstrap ==
    (boot = "boot" /\ last.op = "setGenesis") =>
        /\ \A o \in Range(node[genesis].outputs) :
               queryBalance(Tangle, o.account) = o.amount
        /\ Range(tips) = {genesis}

\* ------------------------------------------------------------- C3
\* C3 (as claimed): on a bootstrapped tangle grown by successful adds,
\* queryBalance(a) does not throw, is >= 0 and is the sum of the outputs of a
\* minus the sum of its inputs over the nodes of the DAG, for every account a.
C3_BalanceIsLedger ==
    (boot = "boot" /\ ~removed) =>
        \A a \in Accounts :
            /\ queryBalance(Tangle, a) # InvalidBalance
            /\ queryBalance(Tangle, a) >= 0
            /\ queryBalance(Tangle, a) = Ledger(Tangle, Reachable(Tangle), a)

\* ------------------------------------------------------------- C4
\* The inputs of `inputs` on `account`, subtracted one after another from
\* queryBalance(account) of the current tangle, make the running value
\* negative at some point.
Overdraws(inputs, account) ==
    \E k \in 1..Len(inputs) :
        /\ inputs[k].account = account
        /\ queryBalance(Tangle, account) - SumFor(SubSeq(inputs, 1, k), account) < 0

\* A step in which t.add(create(...)) returned: the new object is created'.
AddReturned == last'.op = "add" /\ created' = created + 1

\* C4 (as claimed): an add whose inputs overdraw an account fails with
\* InvalidBalance, whatever the number and the order of the inputs: no add
\* that returns has inputs that overdraw an account of the tangle it was
\* called on.
C4_OverdraftRejected ==
    [][AddReturned =>
           \A a \in Accounts : ~Overdraws(node'[created'].inputs, a)]_vars

\* ------------------------------------------------------------- C5
\* C5: whenever add throws (validation, InvalidBalance, missing parent,
\* duplicate child), the tips and every children list are what they were
\* before the call, for a new transaction and for an object added before.
C5_FailedAddChangesNothing ==
    /\ \A c \in NewCalls :
           LET r == add(WithNew(c.parents, c.inputs, c.outputs), created + 1)
           IN  r.result # "ok" => SameStructure(r.t)
    /\ \A n \in 1..created :
           LET r == add(Tangle, n)
           IN  r.result # "ok" => SameStructure(r.t)

\* C5 witness: some add of a node with two parents throws NodeNotFound for
\* the second parent after the first one has passed the checks, in a tangle
\* where the first parent is a node with a child.
C5_Witness ==
    \E c \in NewCalls :
        LET r == add(WithNew(c.parents, c.inputs, c.outputs), created + 1)
        IN  /\ Len(c.parents) = 2
            /\ r.result = "NodeNotFound" /\ r.passed = 1
            /\ children[c.parents[1]] # <<>>

\* ------------------------------------------------------------- C6
\* The second add(n), right after the add(n) that returned.
SecondAdd == add(Tangle, last.node)

C7_AcyclicAndClosed ==
    boot # "swapped" =>
        /\ \A n \in 1..created :
               /\ n \notin Ancestors(Tangle, Range(node[n].parents))
               /\ n \notin ReachFrom(Tangle, Range(children[n]), {})
        /\ \A n \in Reachable(Tangle) :
               Range(node[n].parents) \subseteq Reachable(Tangle)

\* C7 witness: a tip has been removed, and the DAG still holds a node with
\* two different parents.
C7_Witness ==
    /\ boot # "swapped" /\ removed
    /\ \E n \in Reachable(Tangle) :
           Len(node[n].parents) = 2 /\ node[n].parents[1] # node[n].parents[2]

\* ------------------------------------------------------------- C8
\* A step in which t.removeTip(n) returned: n is last'.node.
RemoveTipReturned == last'.op = "removeTip"

\* What C8 says of a removeTip(n) that returned.
RemoveTipEffect(n) ==
    /\ \A p \in NodeIds :
           children'[p] = IF p \in Range(node[n].parents)
                          THEN Erase(children[p], n) ELSE children[p]
    /\ Range(tips') =
           (Range(tips) \ {n})
           \cup {p \in Range(node[n].parents) : Erase(children[p], n) = <<>>}
    /\ find(Tangle', n) = Null

C9_RemoveTipRefused ==
    \A n \in 1..created :
        LET r == removeTip(Tangle, n)
        IN  /\ children[n] # <<>> => (r.result # "ok" /\ r.t = Tangle)
            /\ n \notin Reachable(Tangle) =>
                   (r.result = "NodeNotFound" /\ r.t = Tangle)

\* C9 witness: the tangle holds a node with a child, for which removeTip
\* throws the not-a-tip error, and an object outside the DAG, for which it
\* throws NodeNotFound.
C9_Witness ==
    /\ \E n \in 1..created :
           children[n] # <<>> /\ removeTip(Tangle, n).result = "NotATip"
    /\ \E n \in 1..created :
           n \notin Reachable(Tangle) /\ removeTip(Tangle, n).result = "NodeNotFound"

\* ------------------------------------------------------------- C10
\* C10: find(h) returns the node of hash h when such a node is reachable from
\* the genesis through children lists, and null otherwise.
C10_FindIffReachable ==
    boot # "swapped" =>
        \A h \in NodeIds :
            find(Tangle, h) = IF h \in Reachable(Tangle) THEN h ELSE Null

\* C10 witness: find returns a node with two different parents that is not
\* the first child of its first parent, and returns null for a removed node.
C10_Witness ==
    /\ boot # "swapped" /\ removed
    /\ \E h \in Reachable(Tangle) :
           /\ Len(node[h].parents) = 2 /\ node[h].parents[1] # node[h].parents[2]
           /\ Head(children[node[h].parents[1]]) # h
           /\ find(Tangle, h) = h
    /\ \E h \in 1..created : h \notin Reachable(Tangle) /\ find(Tangle, h) = Null

\* ------------------------------------------------------------- C11
\* A step of setGenesis: the call returned, threw or ended the process.
SetGenesisReturned == last' # last /\ last'.op = "setGenesis"

\* C11 (as claimed): setGenesis(g) on a tangle whose genesis has descendants
\* returns; the old genesis is then without children, every former node other
\* than the old genesis has been removed by removeTip (it is no child of any
\* node and its parents are cleared), and the genesis is g.
C11_SetGenesisFreesAll ==
    [][SetGenesisReturned =>
          /\ last'.result = "ok"
          /\ genesis' = last'.node
          /\ children'[genesis] = <<>>
          /\ \A n \in Reachable(Tangle) \ {genesis} :
                 /\ node'[n].parents = <<>>
                 /\ \A m \in NodeIds : n \notin Range(children'[m])]_vars

\* ------------------------------------------------------------- C12
\* C12 (as claimed): in every state the node in the genesis pointer has
\* isGenesis = true and no parents, and no other node of the DAG has
\* isGenesis = true.
C12_OneGenesis ==
    /\ node[genesis].isGenesis
    /\ node[genesis].parents = <<>>
    /\ \A n \in Reachable(Tangle) \ {genesis} : ~node[n].isGenesis

\* ------------------------------------------------------------- C13
\* C13: a walk started from a node of the DAG returns, whatever children the
\* random draws choose, and the node it returns has no children and is the
\* start node or one of its descendants.
C13_WalkEndsAtTip ==
    /\ [](walk.result # Null =>
            /\ children[walk.result] = <<>>
            /\ walk.result \in ReachFrom(Tangle, {walk.start}, {}))
    /\ (walk.at # Null) ~> (walk.result # Null)

\* C13 witness: a walk from the genesis, which has two different children, has
\* returned a node with two different parents.
C13_Witness ==
    /\ walk.start = genesis
    /\ Cardinality(Range(children[genesis])) = 2
    /\ walk.result # Null
    /\ Cardinality(Range(node[walk.result].parents)) = 2

\* ------------------------------------------------------------- C14
\* Every node of the DAG weighs its own weight plus the weights of the entries
\* of its children list.
WeightsConsistent ==
    \A n \in Reachable(Tangle) :
        node[n].cumulativeWeight
            = ownWeight(node[n]) + SumWeights(Tangle, children[n])

\* The DAG is the genesis with a chain of difficulty-5 transactions below it.
ChainOfFullWeight ==
    /\ \A n \in Reachable(Tangle) : Len(children[n]) <= 1
    /\ \A n \in Reachable(Tangle) \ {genesis} :
           Len(node[n].parents) = 1 /\ node[n].miningDifficulty = FullWeight

\* What C14 says of the state an add and its weight thread leave.
WeightsAfterAdd ==
    /\ WeightsConsistent
    /\ ChainOfFullWeight =>
           node[genesis].cumulativeWeight
               = FullWeight * (Cardinality(Reachable(Tangle)) - 1)
                 + ownWeight(node[genesis])

\* C14 (as claimed): after every add whose weight recomputation has run to
\* completion, each node of the DAG weighs its own weight plus the weights of
\* its children, and below a chain of n difficulty-5 transactions the genesis
\* weighs n * 1.0 plus its own weight.
C14_WeightsOriginal == last.op = "add" => WeightsAfterAdd

\* C14 (amended): the same once the genesis has a child, on a tangle from
\* which no node has been removed.
C14_Weights ==
    (last.op = "add" /\ ~removed /\ children[genesis] # <<>>) => WeightsAfterAdd

\* C14 witness: three difficulty-5 transactions in a chain below the genesis
\* have been added, and nothing has been removed.
C14_Witness ==
    /\ last.op = "add" /\ ~removed
    /\ ChainOfFullWeight
    /\ Cardinality(Reachable(Tangle)) = 4
    /\ node[genesis].cumulativeWeight = 3 * FullWeight + DefaultDifficulty

\* ------------------------------------------------------------- C15
\* The message inflight[i] has just been handled.
Received(i) ==
    /\ i \in 1..Len(inflight)
    /\ inflight' = Without(inflight, i)
    /\ last'.op = inflight[i].type
    /\ last'.node = inflight[i].transaction.hash

\* Transaction T2, whose only parent is T1, waits in the queue, and
\* AddTransactionRequest(T1) arrives at the replica, which holds T1's parents
\* (T1 has some).  Both transactions move no value.
OrphanMeetsParent(i, T2) ==
    /\ Received(i)
    /\ inflight[i] = AddTransactionRequest(inflight[i].transaction)
    /\ inflight[i].transaction.parentHashes # <<>>
    /\ ~ParentMissing(Tangle, inflight[i].transaction)
    /\ inflight[i].transaction.inputs = <<>>
    /\ T2 \in Range(networkQueue)
    /\ T2.parentHashes = <<inflight[i].transaction.hash>>
    /\ T2.inputs = <<>>

\* C15: when AddTransactionRequest(T2), with parents(T2) = {T1}, was handled
\* before AddTransactionRequest(T1) on a replica that holds T1's parents, then
\* after the handler of T1 the DAG holds T1 and T2, T2 is a child of T1 and
\* the queue no longer holds T2.
C15_OrphanRecovery ==
    [][\A i \in 1..MaxNetNodes, T2 \in Range(networkQueue) :
          OrphanMeetsParent(i, T2) =>
              /\ find(Tangle', inflight[i].transaction.hash) # Null
              /\ find(Tangle', T2.hash) # Null
              /\ T2.hash \in Range(children'[inflight[i].transaction.hash])
              /\ T2 \notin Range(networkQueue')]_vars

\* ------------------------------------------------------------- C16
\* The transactions of queue q with a parent missing in tangle t, in order.
Orphans(t, q) == SelectSeq(q, LAMBDA T : ParentMissing(t, T))

\* The networkQueue as the loop of the handler of inflight[i] begins with it.
QueueBeforeDrain(i) ==
    attempToAddTransaction(NetworkedTangle, inflight[i].transaction).r.networkQueue

\* The handler of the add message inflight[i] has run its loop to the end.
Drained(i) ==
    /\ Received(i)
    /\ inflight[i].type = "AddTransactionRequest"
    /\ last'.result = "ok"

\* C16: after the handler of an add message has drained the networkQueue, the
\* transactions that still have a missing parent are in the queue as many
\* times and in the same relative order as before the drain.
C16_DrainKeepsOrphans ==
    [][\A i \in 1..MaxNetNodes :
          Drained(i) =>
              Orphans(Tangle', networkQueue') = Orphans(Tangle', QueueBeforeDrain(i))]_vars

\* A drain has gone over two transactions that are still orphans.
C16_Witness ==
    /\ last.op = "AddTransactionRequest"
    /\ last.result = "ok"
    /\ Len(networkQueue) >= 2
    /\ Orphans(Tangle, networkQueue) = networkQueue

\* ------------------------------------------------------------- C17
\* The NetworkedTangle holding the new object created + 1 built from the
\* parents and inputs, as NetworkedTangle::add is about to be called on it.
WithNewNet(parents, inputs) ==
    [NetworkedTangle EXCEPT
        !.t.node[created + 1] = TransactionNode(parents, inputs, <<>>)]

\* The outcome of the call NetworkedTangle::add(created + 1) in this state.
NetAddOutcome(parents, inputs) ==
    NetworkedTangle_add(WithNewNet(parents, inputs), created + 1, sent)

\* C17: NetworkedTangle::add sends exactly one AddTransactionRequest carrying
\* the node when the base add succeeds, and sends nothing when the base add
\* throws.
C17_BroadcastOnSuccessOnly ==
    \A parents \in SeqsUpTo(1..created, MaxNetParents), inputs \in NetInputs :
        LET before == WithNewNet(parents, inputs)
            base == add(before.t, created + 1)
            x == NetAddOutcome(parents, inputs)
        IN  /\ x.result = base.result
            /\ base.result = "ok" =>
                   x.sent = Append(sent, AddTransactionRequest(
                                             Transaction(before.t, created + 1)))
            /\ base.result # "ok" => x.sent = sent

\* An add has succeeded and its request is the last one sent, and in the
\* state after it there is a call that the base add refuses.
C17_Witness ==
    /\ last.op = "NetworkedTangle_add"
    /\ sent # <<>>
    /\ sent[Len(sent)] = AddTransactionRequest(Transaction(Tangle, last.node))
    /\ \E parents \in SeqsUpTo(1..created, MaxNetParents), inputs \in NetInputs :
           NetAddOutcome(parents, inputs).result # "ok"

\* ------------------------------------------------------------- C18
\* The SyncGenesisRequest inflight[i] has just been handled.
GenesisReceived(i) == Received(i) /\ inflight[i].type = "SyncGenesisRequest"

\* C18: on receipt of a SyncGenesisRequest the genesis is replaced only if
\* listeningForGenesisSync is true at that moment; when the flag is false or
\* the supplied hash is the hash of the current genesis, the genesis pointer
\* and the DAG are unchanged.
C18_GenesisOnlyWhenListening ==
    [][\A i \in 1..MaxNetNodes :
          GenesisReceived(i) =>
              /\ genesis' # genesis => listeningForGenesisSync
              /\ (~listeningForGenesisSync
                    \/ inflight[i].transaction.hash = genesis) =>
                     /\ genesis' = genesis
                     /\ node' = node
                     /\ children' = children
                     /\ tips' = tips]_vars

\* A genesis was taken over while the replica listened, and a later
\* SyncGenesisRequest with another hash has been handled and ignored.
C18_Witness ==
    /\ genesis # 1
    /\ last.op = "SyncGenesisRequest"
    /\ last.result = "ok"
    /\ last.node # genesis
    /\ ~listeningForGenesisSync

\* ------------------------------------------------------------- C19
\* The tangle of peer A as it was streamed.
PeerATangle ==
    [node |-> node, children |-> peerA.children, tips |-> <<>>,
     genesis |-> peerA.genesis]

\* Peer B has handled every message of the stream.
Synchronized == boot = "synchronizing" /\ inflight = <<>>

\* C19: when fresh peer B has issued a TangleSynchronizeRequest and handled,
\* in emission order, every message peer A streamed in response, the genesis
\* of B has the hash of the genesis of A and B finds every node of A's DAG.
C19_SyncConverges ==
    Synchronized =>
        /\ genesis = peerA.genesis
        /\ \A x \in Reachable(PeerATangle) : find(Tangle, x) # Null

\* ------------------------------------------------------------- C20
\* Some input of the transaction exceeds the balance its account has in the
\* current tangle.
ExceedsBalance(transaction) ==
    \E k \in 1..Len(transaction.inputs) :
        transaction.inputs[k].amount
            > queryBalance(Tangle, transaction.inputs[k].account)

\* C20: a transaction received in a SynchronizationAddTransactionRequest
\* whose parents are all present is added to the DAG even when one of its
\* inputs exceeds the balance of its account at the moment of replay.
C20_ReplayWithoutBalanceCheck ==
    [][\A i \in 1..MaxLedgerNodes :
          (/\ Received(i)
           /\ inflight[i].type = "SynchronizationAddTransactionRequest"
           /\ ~ParentMissing(Tangle, inflight[i].transaction)
           /\ ExceedsBalance(inflight[i].transaction))
          => find(Tangle', inflight[i].transaction.hash) # Null]_vars

\* ------------------------------------------------------------- C21
\* The total of every account over the nodes of the DAG is nonnegative.
TotalsNonnegative ==
    \A account \in Accounts : Ledger(Tangle, Reachable(Tangle), account) >= 0

\* C21: under any interleaving of threads that call Tangle::add on different
\* nodes, once all calls have returned the total of every account over the
\* nodes reachable from the genesis is nonnegative.  (No node has been
\* removed.)
C21_ConcurrentAddsKeepTotals ==
    (AllReturned /\ ~removed) => TotalsNonnegative

\* ------------------------------------------------------------- C22
\* Node n is in the children list of one of its parents while it is missing
\* from the children list of another, or while a parent of it is still a tip.
PartlyLinked(n) ==
    \E p, q \in Range(node[n].parents) :
        /\ n \in Range(children[p])
        /\ n \notin Range(children[q]) \/ q \in Range(tips)

\* C22: a node being added becomes visible to readers atomically.  A reader
\* (find, queryBalance, a read of the tips) takes the read locks of the
\* containers and never the mutex, so it can read every state in which no
\* thread holds a container lock, which is every state here: in none of them
\* is a node partly linked.
C22_AddIsAtomicForReaders ==
    \A n \in 1..created : ~PartlyLinked(n)

\* ------------------------------------------------------------- C30
\* Node n is in some children list or in the tips.
Attached(n) ==
    n \in Range(tips) \/ \E p \in 1..created : n \in Range(children[p])

\* C30: under any interleaving of removeTip(n) with an add of a node whose
\* parent is n, after both calls have returned every node in a children list
\* or in the tips has all of its parents reachable from the genesis.
C30_RemoveTipKeepsParents ==
    AllReturned =>
        \A n \in 1..created :
            Attached(n) => Range(node[n].parents) \subseteq Reachable(Tangle)

\* ------------------------------------------------------------- C23
\* C23: once every weight thread started by the adds so far has finished, each
\* node reachable from the genesis weighs its own weight plus the weights of
\* its direct children.  (The genesis has a child.)
C23_WeightsEventuallyConsistent ==
    (tasks = <<>> /\ children[genesis] # <<>>) => WeightsConsistent

\* ------------------------------------------------------------- C24
\* A SyncGenesisRequest whose validity hash is the hash of its transaction
\* has just been handled by a replica that listened for a genesis.
ListenerGotGenesis(i) ==
    /\ GenesisReceived(i)
    /\ inflight[i].validityHash = inflight[i].transaction.hash
    /\ listeningForGenesisSync

\* C24 (as claimed): handling any SyncGenesisRequest whose validity hash is
\* the hash of its transaction, at a replica that listens for a genesis,
\* leaves listeningForGenesisSync false.
C24_GenesisSyncClearsFlagOriginal ==
    [][\A i \in 1..MaxNetNodes :
          ListenerGotGenesis(i) => ~listeningForGenesisSync']_vars

\* C24 (amended): such a request clears the flag when its hash is not the
\* hash of the current genesis, and then the genesis is the one supplied; a
\* request for the current genesis is ignored and the replica keeps listening.
C24_GenesisSyncClearsFlag ==
    [][\A i \in 1..MaxNetNodes :
          ListenerGotGenesis(i) =>
              IF inflight[i].transaction.hash # genesis
              THEN ~listeningForGenesisSync'
                   /\ genesis' = inflight[i].transaction.hash
              ELSE listeningForGenesisSync' /\ genesis' = genesis]_vars

\* A listening replica has taken over a supplied genesis and listens no more.
C24_Witness ==
    /\ last.op = "SyncGenesisRequest"
    /\ last.result = "ok"
    /\ last.node = genesis
    /\ genesis # 1
    /\ ~listeningForGenesisSync

\* ------------------------------------------------------------- C25
\* The handler of the add message inflight[i] has returned normally.
AddHandled(i) ==
    /\ Received(i)
    /\ inflight[i].type \in {"AddTransactionRequest",
                             "SynchronizationAddTransactionRequest"}
    /\ last'.result = "ok"

\* C25: when the handler of an add message returns normally, no transaction
\* left in the networkQueue has all of its parent hashes found in the DAG.
C25_NoResolvableOrphanLeft ==
    [][\A i \in 1..MaxNetNodes :
          AddHandled(i) =>
              \A k \in 1..Len(networkQueue') :
                  ParentMissing(Tangle', networkQueue'[k])]_vars

\* ------------------------------------------------------------- C26
\* An add message, of either kind, has just been handled.
AddReceived(i) ==
    /\ Received(i)
    /\ inflight[i].type \in {"AddTransactionRequest",
                             "SynchronizationAddTransactionRequest"}

\* C26: handling a received AddTransactionRequest or
\* SynchronizationAddTransactionRequest sends no message, neither for the
\* transaction received nor for those inserted while the queue is drained.
C26_HandlerSendsNothing ==
    [][\A i \in 1..MaxNetNodes : AddReceived(i) => sent' = sent]_vars

\* The handler of an add message has inserted its transaction and, from the
\* queue, a child of it.
C26_Witness ==
    /\ last.op = "AddTransactionRequest"
    /\ last.result = "ok"
    /\ find(Tangle, last.node) # Null
    /\ children[last.node] # <<>>

\* ------------------------------------------------------------- C27
\* C27: an add message whose validity hash is not the hash of its transaction
\* is dropped with InvalidHash: the DAG, the tips and the networkQueue are
\* unchanged, and the queue is not drained.
C27_InvalidHashDropped ==
    [][\A i \in 1..MaxNetNodes :
          (AddReceived(i)
             /\ inflight[i].validityHash # inflight[i].transaction.hash) =>
              /\ last'.result = "InvalidHash"
              /\ node' = node
              /\ children' = children
              /\ tips' = tips
              /\ genesis' = genesis
              /\ networkQueue' = networkQueue]_vars

\* An add message was dropped with InvalidHash while a transaction waited in
\* the queue for the very transaction the message carried.
C27_Witness ==
    /\ last.op = "AddTransactionRequest"
    /\ last.result = "InvalidHash"
    /\ \E k \in 1..Len(networkQueue) :
           networkQueue[k].parentHashes = <<last.node>>

\* ------------------------------------------------------------- C28
\* C28: generateWalkSet(5), and with it confirmationConfidence, terminates
\* on every node of a finite DAG (the genesis, a child of the genesis, a node
\* at height 2 or more): a call that is in its loop leaves it.
C28_WalkSetTerminates == (walkSet.pc = "loop") ~> (walkSet.pc # "loop")

\* ------------------------------------------------------------- C29
RECURSIVE PreOrderFrom(_, _)
\* The nodes in pre-order of the traversal over children lists that has
\* `stack` left to visit.
PreOrderFrom(t, stack) ==
    IF stack = <<>> THEN <<>>
    ELSE <<Head(stack)>> \o PreOrderFrom(t, t.children[Head(stack)] \o Tail(stack))

\* The peer has just streamed its tangle to the requester.
Streamed == boot = "boot" /\ boot' = "synchronizing"

\* C29: in response to a TangleSynchronizeRequest the recipient sends to the
\* requester, and broadcasts nothing: first the SyncGenesisRequest of its
\* genesis, then a SynchronizationAddTransactionRequest for every other node
\* of its DAG, in pre-order of the traversal over children lists from the
\* genesis.
C29_StreamIsPreOrder ==
    [][Streamed =>
          /\ inflight'[1] = SyncGenesisRequest(Transaction(Tangle, genesis))
          /\ [k \in 1..Len(inflight') |-> inflight'[k].transaction.hash]
                 = PreOrderFrom(Tangle, <<genesis>>)
          /\ \A k \in 2..Len(inflight') :
                 inflight'[k] = SynchronizationAddTransactionRequest(
                                    Transaction(Tangle, inflight'[k].transaction.hash))
          /\ {inflight'[k].transaction.hash : k \in 1..Len(inflight')}
                 = Reachable(Tangle)
          /\ sent' = Append(sent, [type |-> "TangleSynchronizeRequest"])]_vars

\* A tangle of four nodes has been streamed in which a grandchild of the
\* genesis, added last, is sent before the second child of the genesis.
C29_Witness ==
    /\ last.op = "TangleSynchronizeRequest"
    /\ Len(inflight) = 4
    /\ inflight[3].transaction.hash > inflight[4].transaction.hash
    /\ inflight[3].transaction.parentHashes = <<inflight[2].transaction.hash>>

\* ------------------------------------------------------------- C31
\* The number of entries of the list s that are x.
Occurrences(s, x) == Cardinality({i \in 1..Len(s) : s[i] = x})

\* C31: when two threads call Tangle::add with the same node, at most one
\* call inserts it: once every call has returned, no children list holds a
\* node more than once.
C31_SameNodeInsertedOnce ==
    AllReturned => \A p, n \in 1..created : Occurrences(children[p], n) <= 1

\* ------------------------------------------------------------- C32
\* C32: the tips behave as a set: after any sequence of add and removeTip
\* calls that succeed, adds of nodes with two or more parents included, no
\* node is in `tips` more than once.
C32_TipsIsASet == \A n \in 1..created : Occurrences(tips, n) <= 1

\* ------------------------------------------------------------- C33
\* The genesis of the constructor has been replaced and the process runs.
GenesisReplaced == genesis # 1 /\ Running

\* C33: after the genesis has been replaced, every node in the tips is found
\* from the current genesis: no node of the discarded DAG, and not the old
\* genesis, is left in `tips`, also after further adds.
C33_TipsBelowNewGenesis ==
    GenesisReplaced => \A i \in 1..Len(tips) : find(Tangle, tips[i]) = tips[i]

\* ------------------------------------------------------------- diagnostics
NoHang == last.result # Hang

====
